---- MODULE Spec2Model ----
(***************************************************************************)
(* The step pipeline runner of the ChatOps AI QA pipeline bot:             *)
(* bot/handlers.py (handle_file, run_next_step, _execute_step,             *)
(* _retry_step, cancel_pipeline, close_pipeline), bot/state_manager.py     *)
(* (pipeline_runs, step_retry_counts, the context store), bot/keyboards.py *)
(* and pipeline/runner.py (PIPELINE_STEPS, initialize_pipeline).           *)
(*                                                                         *)
(* A handler is a coroutine: the code between two awaits runs atomically   *)
(* on the event loop.  Each handler is therefore a chain of atomic         *)
(* segments (the seg_ operators), and Segment applies the segment at the   *)
(* frame's pc.  Spec runs every handler call to completion before the next *)
(* one starts (updates handled one at a time); SpecConc lets the handlers  *)
(* of several updates interleave at their awaits.                          *)
(***************************************************************************)
EXTENDS Integers, Sequences, FiniteSets, TLC

\* ---------------------------------------------------------------- bounds
NumOwners == 1
MaxRuns == 2
RegistryLen == 2
MaxInFlight == 2
MaxReqs == 2
NumChats == 2

Owners == 1..NumOwners
RunIds == 1..MaxRuns
Procs == 1..MaxInFlight
Chats == 1..NumChats

\* ------------------------------------------------------ program constants
\* pipeline/runner.py PIPELINE_STEPS, the names in order
AllSteps ==
    << "PII Masking", "Generating Scenarios", "Generating Test Cases",
       "Generating Autotests", "Checking Code Quality",
       "Performing AI Code Review", "Running Autotests",
       "Generating QA Summary", "Generating Bug Report" >>

\* The registry the model runs: the first RegistryLen steps.  The handlers
\* use the registry only through len() and indexing.
PIPELINE_STEPS == SubSeq(AllSteps, 1, RegistryLen)

\* len(PIPELINE_STEPS)
NSteps == Len(PIPELINE_STEPS)

\* An off-by-one lookup: the entry after the cursor's.
StepAt_off_by_one(step_index) ==
    PIPELINE_STEPS[IF step_index + 2 <= NSteps THEN step_index + 2 ELSE 1]

\* PIPELINE_STEPS[step_index] with Python's zero-based index
StepAt(step_index) == PIPELINE_STEPS[step_index + 1]

StepNames == {PIPELINE_STEPS[i] : i \in 1..NSteps}

max_retries == 3

\* A backoff computed from the count after the failure was recorded.
backoff_delay_after_increment(current_retry) == 1 * (2 ^ (current_retry + 1))

\* delay = 1 * (2 ** current_retry): 1, 2, 4 seconds
backoff_delay(current_retry) == 1 * (2 ^ current_retry)

\* `except Exception`: every exception of the model is caught.
CaughtException ==
    {"LLMError", "PipelineError", "StorageError", "ValueError", "OSError"}

\* The exceptions a step function, the store or the artifact hook can raise.
\* The handlers catch (LLMError, PipelineError, StorageError); ValueError
\* stands for every exception type outside that tuple.
Caught == {"LLMError", "PipelineError", "StorageError"}
StepResults == {"ok", "LLMError", "PipelineError", "StorageError", "ValueError"}
StoreResults == {"ok", "S3Error"}
HookResults == {"ok", "OSError"}

\* ------------------------------------------------------- dict operations
\* d[k] = v
Put(d, k, v) == [x \in (DOMAIN d) \cup {k} |-> IF x = k THEN v ELSE d[x]]
\* del d[k]
Del(d, k) == [x \in (DOMAIN d) \ {k} |-> d[x]]
EmptyDict == [x \in {} |-> 0]

\* ------------------------------------------------------------ the context
\* A run context as pipeline/runner.py builds it: run_id, step_index and the
\* fields the steps have written (named by the step that wrote them).
NoCtx == [run_id |-> 0, step_index |-> 0, fields |-> {}]

\* ---------------------------------------------- Python and JSON values
\* The Python values a context can hold under "requirements": None, a str,
\* a dict with str keys, a Requirement object.
None == [type |-> "NoneType"]
PyStr(s) == [type |-> "str", value |-> s]
PyDict(items) == [type |-> "dict", items |-> items]

\* models/requirement.py: the dataclass; its attributes are the object's
\* __dict__.
Requirement(requirement_id, description, priority, additional_details) ==
    [type |-> "Requirement",
     attrs |-> [requirement_id |-> requirement_id, description |-> description,
                priority |-> priority,
                additional_details |-> additional_details]]

\* req.__dict__: a dict of the object's attributes.
Requirement_dict(req) == PyDict(req.attrs)

\* Requirement(**req_dict): the two required arguments, priority defaulting
\* to None and additional_details to a new empty dict.
Requirement_from_dict(req_dict) ==
    Requirement(req_dict.items.requirement_id, req_dict.items.description,
                IF "priority" \in DOMAIN req_dict.items
                THEN req_dict.items.priority ELSE None,
                IF "additional_details" \in DOMAIN req_dict.items
                THEN req_dict.items.additional_details ELSE PyDict(EmptyDict))

\* json.dumps can encode None, str and dict; it raises TypeError for an
\* object of a class it does not know.
RECURSIVE Serializable(_)
Serializable(v) ==
    CASE v.type \in {"NoneType", "str"} -> TRUE
      [] v.type = "dict" -> \A k \in DOMAIN v.items : Serializable(v.items[k])
      [] OTHER -> FALSE

\* The JSON text json.dumps writes for a value: null, a string, an object.
RECURSIVE json_encode(_)
json_encode(v) ==
    CASE v.type = "NoneType" -> [json |-> "null"]
      [] v.type = "str" -> [json |-> "string", chars |-> v.value]
      [] v.type = "dict" ->
            [json |-> "object",
             members |-> [k \in DOMAIN v.items |-> json_encode(v.items[k])]]

\* The value json.loads builds from a JSON text: None, a str, a dict.
RECURSIVE json_decode(_)
json_decode(j) ==
    CASE j.json = "null" -> None
      [] j.json = "string" -> PyStr(j.chars)
      [] j.json = "object" ->
            PyDict([k \in DOMAIN j.members |-> json_decode(j.members[k])])

\* json.dumps of a context: an object with the dict's keys; the numbers and
\* the steps' fields as they are, the list under "requirements" as an array
\* of the encoded elements.
json_dumps(data_dict) ==
    IF "requirements" \in DOMAIN data_dict
    THEN [data_dict EXCEPT !.requirements =
             [i \in DOMAIN @ |-> json_encode(@[i])]]
    ELSE data_dict

json_loads(content) ==
    IF "requirements" \in DOMAIN content
    THEN [content EXCEPT !.requirements =
             [i \in DOMAIN @ |-> json_decode(@[i])]]
    ELSE content

\* json.dumps raises TypeError for data_dict.
NotSerializable(data_dict) ==
    /\ "requirements" \in DOMAIN data_dict
    /\ \E i \in DOMAIN data_dict.requirements :
           ~Serializable(data_dict.requirements[i])

\* bot/state_manager.py: the object contexts/{run_id}/context.json
get_context_minio_path(run_id) == run_id

\* A put that is not atomic: the object is written although the call raises.
upload_json_not_atomic(store, path, data_dict, result) ==
    [raised |-> result # "ok", store |-> Put(store, path, json_dumps(data_dict))]

\* storage/minio_client.py upload_json: json.dumps, then upload: put_object,
\* an S3Error becomes StorageError.  Returns the store and whether an
\* exception was raised (TypeError by json.dumps, StorageError by upload).
upload_json(store, path, data_dict, result) ==
    IF NotSerializable(data_dict)
    THEN [raised |-> TRUE, store |-> store]
    ELSE IF result = "ok"
    THEN [raised |-> FALSE, store |-> Put(store, path, json_dumps(data_dict))]
    ELSE [raised |-> TRUE, store |-> store]

\* storage/minio_client.py download_json: download (get_object, an S3Error,
\* no such key or the store cannot be reached, becomes StorageError), then
\* json.loads.
download_json(store, path, result) ==
    IF result = "ok" /\ path \in DOMAIN store
    THEN [raised |-> FALSE, data |-> json_loads(store[path])]
    ELSE [raised |-> TRUE, data |-> NoCtx]

\* A save that writes the cursor of ctx into the object already in the
\* bucket and leaves the other fields of that object as they were.
save_context_cursor_only(store, ctx, result) ==
    LET path == get_context_minio_path(ctx.run_id)
    IN upload_json(store, path,
                   IF path \in DOMAIN store
                   THEN [store[path] EXCEPT !.step_index = ctx.step_index]
                   ELSE ctx,
                   result)

\* serializable_ctx is ctx with the Requirement objects under
\* "requirements" replaced by their __dict__.
save_context_to_minio(store, ctx, result) ==
    LET serializable_ctx ==
            IF "requirements" \in DOMAIN ctx
            THEN [ctx EXCEPT !.requirements =
                     [i \in DOMAIN @ |-> Requirement_dict(@[i])]]
            ELSE ctx
    IN upload_json(store, get_context_minio_path(ctx.run_id),
                   serializable_ctx, result)

\* A loader that drops the cursor: ctx.get("step_index", 0) on a context
\* read back without its step_index.
load_context_drops_cursor(store, run_id, result) ==
    LET ld == download_json(store, get_context_minio_path(run_id), result)
    IN [ld EXCEPT !.data.step_index = 0]

\* A loader that returns the dicts under "requirements" as json.loads built
\* them.
load_context_keeps_dicts(store, run_id, result) ==
    download_json(store, get_context_minio_path(run_id), result)

\* loaded_ctx with the dicts under "requirements" replaced by Requirement
\* objects.
load_context_from_minio(store, run_id, result) ==
    LET ld == download_json(store, get_context_minio_path(run_id), result)
    IN IF ~ld.raised /\ "requirements" \in DOMAIN ld.data
       THEN [ld EXCEPT !.data.requirements =
                [i \in DOMAIN @ |-> Requirement_from_dict(@[i])]]
       ELSE ld

\* The body of delete_context_from_minio is `pass`: the object stays.
delete_context_from_minio(store, run_id) == store

\* An initializer that starts the cursor at 1.
initialize_pipeline_at_one(uuid) ==
    [run_id |-> uuid, step_index |-> 1, fields |-> {}]

\* pipeline/runner.py initialize_pipeline: a fresh run_id, step_index 0.
initialize_pipeline(uuid) == [run_id |-> uuid, step_index |-> 0, fields |-> {}]

\* A step function that returns normally has written its fields into ctx.
step_function(ctx, step_name) == [ctx EXCEPT !.fields = @ \cup {step_name}]

\* ctx["step_index"] =+ 1, the cursor set to 1 instead of incremented.
advance_assigns_one(ctx) == [ctx EXCEPT !.step_index = 1]

\* ctx["step_index"] += 2
advance_by_two(ctx) == [ctx EXCEPT !.step_index = @ + 2]

\* ctx["step_index"] += 1
advance(ctx) == [ctx EXCEPT !.step_index = @ + 1]

\* ------------------------------------------------------ step_retry_counts
\* step_retry_counts is defaultdict(lambda: defaultdict(int)); _retry_step
\* stores a plain {} for a chat it has not seen.  plain tells the two apart:
\* reading a missing key of a plain dict raises KeyError.
PlainDict == [plain |-> TRUE, c |-> EmptyDict]
DefaultDict == [plain |-> FALSE, c |-> EmptyDict]

\* chat_id in step_retry_counts and step_name in step_retry_counts[chat_id]
HasCount(counts, chat_id, step_name) ==
    chat_id \in DOMAIN counts /\ step_name \in DOMAIN counts[chat_id].c

\* step_retry_counts[chat_id] (the outer defaultdict makes a missing one)
Inner(counts, chat_id) ==
    IF chat_id \in DOMAIN counts THEN counts[chat_id] ELSE DefaultDict

\* step_retry_counts[chat_id][step_name] = v
SetCount(counts, chat_id, step_name, v) ==
    Put(counts, chat_id,
        [Inner(counts, chat_id) EXCEPT !.c = Put(@, step_name, v)])

\* del step_retry_counts[chat_id][step_name]
DelCount(counts, chat_id, step_name) ==
    Put(counts, chat_id, [counts[chat_id] EXCEPT !.c = Del(@, step_name)])

\* The attempt count the spec calls AttemptsSoFar: 0 when unseen.
CountOf(counts, chat_id, step_name) ==
    IF HasCount(counts, chat_id, step_name)
    THEN counts[chat_id].c[step_name] ELSE 0

\* ---------------------------------------------------------------- keyboard
Button(label, step_name, prefix, run_id) ==
    [label |-> label, step |-> step_name, prefix |-> prefix, run_id |-> run_id]

\* A keyboard that offers Run and Cancel at the end of the registry too.
get_main_keyboard_never_close(ctx, is_retry_available) ==
    << Button(IF is_retry_available THEN "Retry" ELSE "Run",
              StepAt(IF ctx.step_index < NSteps THEN ctx.step_index ELSE 0),
              IF is_retry_available THEN "retry_step_" ELSE "run_step_",
              ctx.run_id),
       Button("Cancel", "", "cancel_pipeline_", ctx.run_id) >>

get_main_keyboard(ctx, is_retry_available) ==
    IF ctx.step_index < NSteps
    THEN << IF is_retry_available
            THEN Button("Retry", StepAt(ctx.step_index), "retry_step_", ctx.run_id)
            ELSE Button("Run", StepAt(ctx.step_index), "run_step_", ctx.run_id),
            Button("Cancel", "", "cancel_pipeline_", ctx.run_id) >>
    ELSE << Button("Close", "", "close_pipeline_", ctx.run_id) >>

\* The callback data of a button, f"{prefix}{run_id}", as the pieces
\* data.split('_') yields: the words of the prefix, then the run_id (a uuid4
\* string holds no underscore).
callback_data(button) ==
    (CASE button.prefix = "run_step_" -> << "run", "step" >>
       [] button.prefix = "retry_step_" -> << "retry", "step" >>
       [] button.prefix = "cancel_pipeline_" -> << "cancel", "pipeline" >>
       [] button.prefix = "close_pipeline_" -> << "close", "pipeline" >>)
    \o << button.run_id >>

\* data.startswith(prefix), prefix ending with an underscore.
startswith(data, prefix) ==
    Len(data) > Len(prefix) /\ SubSeq(data, 1, Len(prefix)) = prefix

\* ------------------------------------------------------- a handler's frame
\* The locals of one handler call and what the call did: the step calls it
\* made (invoked), the contexts it persisted (saved), the exception it last
\* saw (error), how it ended (outcome) and the keyboard it offered;
\* reattached tells that run_next_step bound an owner that was not bound to
\* the run when the context was loaded, slept lists the time.sleep calls.
Frame(op, chat_id, run_id, is_retry) ==
    [op |-> op, chat_id |-> chat_id, run_id |-> run_id, is_retry |-> is_retry,
     pc |-> "start", ctx |-> NoCtx, step_name |-> "",
     current_retry |-> 0, delay |-> 0, slept |-> << >>, reattached |-> FALSE,
     invoked |-> << >>, saved |-> << >>, error |-> "", outcome |-> "",
     keyboard |-> << >>]

NoFrame == [Frame("none", 0, 0, FALSE) EXCEPT !.pc = "end"]

\* The handler returns.
Return(w, outcome, keyboard) ==
    [w EXCEPT !.h.pc = "end", !.h.outcome = outcome, !.h.keyboard = keyboard]

\* An exception leaves the handler uncaught.
Escape(w, error) ==
    [w EXCEPT !.h.pc = "end", !.h.outcome = "escaped", !.h.error = error]

\* ---------------------------------------------------------- button_handler
\* A dispatcher that passes is_retry=False for every button.
button_handler_never_retry(chat_id, data) ==
    LET run_id == data[Len(data)]
    IN IF startswith(data, << "run", "step" >>)
          \/ startswith(data, << "retry", "step" >>)
       THEN Frame("run_next_step", chat_id, run_id, FALSE)
       ELSE IF startswith(data, << "cancel", "pipeline" >>)
       THEN Frame("cancel_pipeline", chat_id, run_id, FALSE)
       ELSE Frame("close_pipeline", chat_id, run_id, FALSE)

\* Lines 122-136: run_id = data.split('_')[-1], then the handler chosen by
\* the prefix of the callback data; the result is the call that is made.
button_handler(chat_id, data) ==
    LET run_id == data[Len(data)]
    IN IF startswith(data, << "run", "step" >>)
          \/ startswith(data, << "retry", "step" >>)
       THEN Frame("run_next_step", chat_id, run_id,
                  startswith(data, << "retry", "step" >>))
       ELSE IF startswith(data, << "cancel", "pipeline" >>)
       THEN Frame("cancel_pipeline", chat_id, run_id, FALSE)
       ELSE IF startswith(data, << "close", "pipeline" >>)
       THEN Frame("close_pipeline", chat_id, run_id, FALSE)
       ELSE [Frame("unknown", chat_id, run_id, FALSE) EXCEPT
                !.pc = "end", !.outcome = "unknown_command"]

\* ------------------------------------------------------------ handle_file
\* handle_file without the `chat_id in pipeline_runs` test.
seg_handle_file_unchecked(w, io) ==
    IF ~io.txt
    THEN Return(w, "not_a_txt_file", << >>)
    ELSE [w EXCEPT !.h.pc = "file_create"]

\* Lines 68-83: the single-flight check and the file type check, up to the
\* first await (doc.get_file()).
seg_handle_file(w, io) ==
    IF w.h.chat_id \in DOMAIN w.pipeline_runs
    THEN Return(w, "already_in_progress", << >>)
    ELSE IF ~io.txt
    THEN Return(w, "not_a_txt_file", << >>)
    ELSE [w EXCEPT !.h.pc = "file_create"]

\* Lines 84-109: upload, initialize_pipeline, bind, save, keyboard.
seg_file_create(w, io) ==
    IF io.upload # "ok" \/ io.download # "ok"
    THEN Return([w EXCEPT !.h.error = "StorageError"], "init_error", << >>)
    ELSE
    LET ctx == initialize_pipeline(w.next_uuid)
        bound == [w EXCEPT !.next_uuid = @ + 1,
                           !.pipeline_runs = Put(@, w.h.chat_id, ctx.run_id),
                           !.h.run_id = ctx.run_id, !.h.ctx = ctx]
        sv == save_context_to_minio(w.store, ctx, io.save)
    IN IF sv.raised
       THEN Return([bound EXCEPT !.store = sv.store, !.h.error = "StorageError"],
                   "init_error", << >>)
       ELSE Return([bound EXCEPT !.store = sv.store, !.h.saved = Append(@, ctx)],
                   "initialized", get_main_keyboard(ctx, FALSE))

\* ---------------------------------------------------------- run_next_step
\* run_next_step that leaves pipeline_runs alone after the load and so
\* goes on for an owner that is not bound to the run.
seg_run_next_step_no_bind(w, io) ==
    LET ld == load_context_from_minio(w.store, w.h.run_id, io.load)
    IN IF ld.raised
       THEN [w EXCEPT !.h.pc = "not_found", !.h.error = "StorageError"]
       ELSE IF ld.data.step_index >= NSteps
       THEN [w EXCEPT !.h.ctx = ld.data, !.h.pc = "completed"]
       ELSE [w EXCEPT !.h.ctx = ld.data,
                      !.h.step_name = StepAt(ld.data.step_index),
                      !.h.pc = "exec_run"]

\* A counter lookup that lets the step run while current_retry <= max_retries.
retry_entry_inclusive(w, step_name) ==
    LET chat_id == w.h.chat_id
        current_retry == CountOf(w.step_retry_counts, chat_id, step_name)
    IN [w EXCEPT !.step_retry_counts = SetCount(@, chat_id, step_name, current_retry),
                 !.h.current_retry = current_retry,
                 !.h.delay = backoff_delay(current_retry),
                 !.h.pc = IF current_retry <= max_retries
                          THEN "retry_run" ELSE "retry_exhausted"]

\* _retry_step lines 243-263 and 307-313: the counter lookup, the backoff
\* delay and the branch on max_retries, up to the await of the branch taken.
retry_entry(w, step_name) ==
    LET chat_id == w.h.chat_id
        c1 == IF chat_id \notin DOMAIN w.step_retry_counts
              THEN Put(w.step_retry_counts, chat_id, PlainDict)
              ELSE w.step_retry_counts
        c2 == IF step_name \notin DOMAIN c1[chat_id].c
              THEN SetCount(c1, chat_id, step_name, 0)
              ELSE c1
        current_retry == c2[chat_id].c[step_name]
    IN [w EXCEPT !.step_retry_counts = c2,
                 !.h.current_retry = current_retry,
                 !.h.delay = backoff_delay(current_retry),
                 !.h.pc = IF current_retry < max_retries
                          THEN "retry_run" ELSE "retry_exhausted"]

\* run_next_step lines 150-176 and the callee up to its first await.
seg_run_next_step(w, io) ==
    LET chat_id == w.h.chat_id
        run_id == w.h.run_id
        ld == load_context_from_minio(w.store, run_id, io.load)
    IN IF ld.raised
       THEN [w EXCEPT !.h.pc = "not_found", !.h.error = "StorageError"]
       ELSE
       LET ctx == ld.data
           w1 == [w EXCEPT !.pipeline_runs = Put(@, chat_id, run_id),
                           !.h.reattached =
                               ~(/\ chat_id \in DOMAIN w.pipeline_runs
                                 /\ w.pipeline_runs[chat_id] = run_id),
                           !.h.ctx = ctx]
       IN IF ctx.step_index >= NSteps
          THEN [w1 EXCEPT !.h.pc = "completed"]
          ELSE
          LET step_name == StepAt(ctx.step_index)
              w2 == [w1 EXCEPT !.h.step_name = step_name]
          IN IF w.h.is_retry
             THEN retry_entry(w2, step_name)
             ELSE [w2 EXCEPT !.h.pc = "exec_run"]

\* The not-found branch without the cleanup of pipeline_runs.
seg_not_found_keeps_binding(w, io) == Return(w, "state_not_found", << >>)

\* Lines 158-161, after "Pipeline state not found" was sent.
seg_not_found(w, io) ==
    Return([w EXCEPT !.pipeline_runs =
                IF w.h.chat_id \in DOMAIN @ THEN Del(@, w.h.chat_id) ELSE @],
           "state_not_found", << >>)

\* Lines 167-169, after "Pipeline already completed" was sent.
seg_completed(w, io) ==
    IF w.h.chat_id \notin DOMAIN w.pipeline_runs
    THEN Escape(w, "KeyError")
    ELSE Return([w EXCEPT !.pipeline_runs = Del(@, w.h.chat_id),
                          !.store = delete_context_from_minio(@, w.h.run_id)],
                "already_completed", << >>)

\* What a call of the step function at the frame's cursor leaves in the
\* frame: the step's name and index, what the step returned or raised, and
\* the highest step_index persisted for the run at the moment of the call.
Invocation(w, result) ==
    [step |-> w.h.step_name, index |-> w.h.ctx.step_index, result |-> result,
     persisted |-> w.persisted_max[w.h.run_id]]

\* Lines 224-228: the cleanup of _execute_step's except branch.
seg_exec_failed(w, io) ==
    LET chat_id == w.h.chat_id
        step_name == w.h.step_name
    IN Return([w EXCEPT
                 !.pipeline_runs =
                     IF chat_id \in DOMAIN @ THEN Del(@, chat_id) ELSE @,
                 !.store = delete_context_from_minio(@, w.h.run_id),
                 !.step_retry_counts =
                     IF HasCount(@, chat_id, step_name)
                     THEN DelCount(@, chat_id, step_name) ELSE @],
              "torn_down", << >>)

\* Lines 198-222 of _execute_step, after "Running step" was sent: the step,
\* the cursor, the save, the counter reset, the artifact hook, the keyboard.
seg_exec_run(w, io) ==
    LET chat_id == w.h.chat_id
        step_name == w.h.step_name
        called == [w EXCEPT !.h.invoked = Append(@, Invocation(w, io.step))]
    IN IF io.step \in Caught
       THEN [called EXCEPT !.h.pc = "exec_failed", !.h.error = io.step]
       ELSE IF io.step # "ok"
       THEN Escape(called, io.step)
       ELSE
       LET ctx == advance(step_function(w.h.ctx, step_name))
           advanced == [called EXCEPT !.h.ctx = ctx]
           sv == save_context_to_minio(w.store, ctx, io.save)
       IN IF sv.raised
          THEN [advanced EXCEPT !.store = sv.store, !.h.pc = "exec_failed",
                                !.h.error = "StorageError"]
          ELSE
          LET done == [advanced EXCEPT
                         !.store = sv.store,
                         !.h.saved = Append(@, ctx),
                         !.step_retry_counts =
                             IF HasCount(@, chat_id, step_name)
                             THEN SetCount(@, chat_id, step_name, 0) ELSE @]
          IN IF io.hook \in Caught
             THEN [done EXCEPT !.h.pc = "exec_failed", !.h.error = io.hook]
             ELSE IF io.hook # "ok"
             THEN Escape(done, io.hook)
             ELSE Return(done, "step_completed", get_main_keyboard(ctx, FALSE))

\* An except branch that counts a failed attempt twice.
retry_failed_counts_twice(w, error) ==
    Return([w EXCEPT !.h.error = error,
                     !.h.slept = Append(@, w.h.delay),
                     !.step_retry_counts =
                         SetCount(@, w.h.chat_id, w.h.step_name,
                                  CountOf(@, w.h.chat_id, w.h.step_name) + 2)],
           "retry_offered", get_main_keyboard(w.h.ctx, TRUE))

\* Lines 283-306: the except branch of _retry_step.  The counter is read
\* through the dicts as they are now: KeyError when the chat's dict is a
\* plain one that has lost the step's key.
retry_failed(w, error) ==
    LET chat_id == w.h.chat_id
        step_name == w.h.step_name
        inner == Inner(w.step_retry_counts, chat_id)
    IN IF step_name \notin DOMAIN inner.c /\ inner.plain
       THEN Escape(w, "KeyError")
       ELSE
       LET old == IF step_name \in DOMAIN inner.c THEN inner.c[step_name] ELSE 0
       IN Return([w EXCEPT !.h.error = error,
                           !.h.slept = Append(@, w.h.delay),
                           !.step_retry_counts =
                               SetCount(@, chat_id, step_name, old + 1)],
                 "retry_offered", get_main_keyboard(w.h.ctx, TRUE))

\* A retry that calls the step again at once when it has failed, without
\* returning to the caller.
seg_retry_run_loops(w, io) ==
    IF io.step \in Caught
    THEN [w EXCEPT !.h.invoked = Append(@, Invocation(w, io.step)),
                   !.h.error = io.step]
    ELSE Return([w EXCEPT !.h.invoked = Append(@, Invocation(w, io.step))],
                "step_completed", << >>)

\* Lines 264-306 of _retry_step, after "Retrying" was sent.
seg_retry_run(w, io) ==
    LET chat_id == w.h.chat_id
        step_name == w.h.step_name
        called == [w EXCEPT !.h.invoked = Append(@, Invocation(w, io.step))]
    IN IF io.step \in Caught
       THEN retry_failed(called, io.step)
       ELSE IF io.step # "ok"
       THEN Escape(called, io.step)
       ELSE
       LET ctx == advance(step_function(w.h.ctx, step_name))
           advanced == [called EXCEPT !.h.ctx = ctx]
           sv == save_context_to_minio(w.store, ctx, io.save)
       IN IF sv.raised
          THEN retry_failed([advanced EXCEPT !.store = sv.store], "StorageError")
          ELSE
          LET done == [advanced EXCEPT
                         !.store = sv.store,
                         !.h.saved = Append(@, ctx),
                         !.step_retry_counts =
                             SetCount(@, chat_id, step_name, 0)]
          IN IF io.hook \in Caught
             THEN retry_failed(done, io.hook)
             ELSE IF io.hook # "ok"
             THEN Escape(done, io.hook)
             ELSE Return(done, "step_completed", get_main_keyboard(ctx, FALSE))

\* Lines 307-318: the else branch of _retry_step, after the message.
seg_retry_exhausted(w, io) ==
    LET chat_id == w.h.chat_id
        step_name == w.h.step_name
    IN IF chat_id \notin DOMAIN w.pipeline_runs
       THEN Escape(w, "KeyError")
       ELSE Return([w EXCEPT
                      !.pipeline_runs = Del(@, chat_id),
                      !.store = delete_context_from_minio(@, w.h.run_id),
                      !.step_retry_counts =
                          IF HasCount(@, chat_id, step_name)
                          THEN DelCount(@, chat_id, step_name) ELSE @],
                   "retries_exhausted", << >>)

\* ------------------------------------------- cancel_pipeline, close_pipeline
\* Lines 331-340.
seg_cancel_pipeline(w, io) ==
    LET chat_id == w.h.chat_id
    IN IF chat_id \in DOMAIN w.pipeline_runs /\ w.pipeline_runs[chat_id] = w.h.run_id
       THEN Return([w EXCEPT
                      !.pipeline_runs = Del(@, chat_id),
                      !.step_retry_counts =
                          IF chat_id \in DOMAIN @ THEN Del(@, chat_id) ELSE @,
                      !.store = delete_context_from_minio(@, w.h.run_id)],
                   "cancelled", << >>)
       ELSE Return(w, "no_active_pipeline", << >>)

\* Lines 353-362.
seg_close_pipeline(w, io) ==
    LET chat_id == w.h.chat_id
    IN IF chat_id \in DOMAIN w.pipeline_runs /\ w.pipeline_runs[chat_id] = w.h.run_id
       THEN Return([w EXCEPT
                      !.pipeline_runs = Del(@, chat_id),
                      !.step_retry_counts =
                          IF chat_id \in DOMAIN @ THEN Del(@, chat_id) ELSE @,
                      !.store = delete_context_from_minio(@, w.h.run_id)],
                   "closed", << >>)
       ELSE Return(w, "closed", << >>)

\* ----------------------------------------------------------- the dispatcher
\* The segment of the frame's handler that runs next.
SegmentAt(w, io) ==
    CASE w.h.pc = "end" -> w
      [] w.h.pc = "start" /\ w.h.op = "handle_file" -> seg_handle_file(w, io)
      [] w.h.pc = "start" /\ w.h.op = "run_next_step" -> seg_run_next_step(w, io)
      [] w.h.pc = "start" /\ w.h.op = "cancel_pipeline" -> seg_cancel_pipeline(w, io)
      [] w.h.pc = "start" /\ w.h.op = "close_pipeline" -> seg_close_pipeline(w, io)
      [] w.h.pc = "file_create" -> seg_file_create(w, io)
      [] w.h.pc = "not_found" -> seg_not_found(w, io)
      [] w.h.pc = "completed" -> seg_completed(w, io)
      [] w.h.pc = "exec_run" -> seg_exec_run(w, io)
      [] w.h.pc = "exec_failed" -> seg_exec_failed(w, io)
      [] w.h.pc = "retry_run" -> seg_retry_run(w, io)
      [] w.h.pc = "retry_exhausted" -> seg_retry_exhausted(w, io)

Max(a, b) == IF a >= b THEN a ELSE b

\* The highest step_index ever persisted for each run (-1: none yet).
Observe(w) ==
    [w EXCEPT !.persisted_max =
        [r \in RunIds |-> IF r \in DOMAIN w.store
                          THEN Max(@[r], w.store[r].step_index) ELSE @[r]]]

Segment(w, io) == Observe(SegmentAt(w, io))

\* A whole handler call, its segments run back to back (no handler has more
\* than three).
Handler(w, io) ==
    LET w1 == Segment(w, io)
        w2 == Segment(w1, io)
    IN Segment(w2, io)

\* ------------------------------------------------------------------ state
VARIABLES
    store,              \* the bucket: run_id -> persisted context
    pipeline_runs,      \* bot/state_manager.py: chat_id -> run_id
    step_retry_counts,  \* bot/state_manager.py: chat_id -> step_name -> count
    next_uuid,          \* the next fresh run_id uuid.uuid4() yields
    persisted_max,      \* run_id -> highest step_index ever persisted
    inflight,           \* SpecConc: the frames of the handlers in flight
    raced,              \* the runs two run_next_step handlers overlapped on
    stale,              \* the runs a step was called for below the persisted cursor
    last,               \* the frame of the handler call that ended last
    cancelled,          \* the runs cancel_pipeline has reported cancelled
    crashed,            \* the runs a step ran for in a call the process died in
                        \* before the step's save
    offered             \* SpecButtons: the callback data of the buttons sent

vars == << store, pipeline_runs, step_retry_counts, next_uuid, persisted_max,
           inflight, raced, stale, last, cancelled, crashed, offered >>

\* The shared state with the frame h of the handler that is to run.
World(h) ==
    [store |-> store, pipeline_runs |-> pipeline_runs,
     step_retry_counts |-> step_retry_counts, next_uuid |-> next_uuid,
     persisted_max |-> persisted_max, h |-> h]

\* What the environment answers to a handler: the results of the store
\* calls, of the step function and of the artifact hook, and whether the
\* uploaded document's name ends with .txt.
IoOk == [load |-> "ok", step |-> "ok", save |-> "ok", hook |-> "ok",
         upload |-> "ok", download |-> "ok", txt |-> TRUE]

\* Only the answers a call can consume: a failed load ends the call, a
\* failed step is not followed by a save, a failed save not by the hook.
StepIo ==
    {[IoOk EXCEPT !.load = "S3Error"]}
    \cup {[IoOk EXCEPT !.step = s] : s \in StepResults \ {"ok"}}
    \cup {[IoOk EXCEPT !.save = "S3Error"]}
    \cup {[IoOk EXCEPT !.hook = k] : k \in HookResults}

FileIo ==
    {[IoOk EXCEPT !.txt = FALSE], [IoOk EXCEPT !.upload = "S3Error"],
     [IoOk EXCEPT !.download = "S3Error"], [IoOk EXCEPT !.save = "S3Error"],
     IoOk}

IoFor(op) ==
    IF op = "handle_file" THEN FileIo
    ELSE IF op = "run_next_step" THEN StepIo ELSE {IoOk}

\* The updates the bot can receive: an uploaded document, or a button press
\* that button_handler dispatches on the callback data's prefix and run_id.
Updates ==
    {Frame("handle_file", c, 0, FALSE) : c \in Owners}
    \cup {Frame("run_next_step", c, r, b) :
             c \in Owners, r \in RunIds, b \in BOOLEAN}
    \cup {Frame(op, c, r, FALSE) :
             op \in {"cancel_pipeline", "close_pipeline"},
             c \in Owners, r \in RunIds}

Init ==
    /\ store = EmptyDict
    /\ pipeline_runs = EmptyDict
    /\ step_retry_counts = EmptyDict
    /\ next_uuid = 1
    /\ persisted_max = [r \in RunIds |-> -1]
    /\ inflight = [p \in Procs |-> NoFrame]
    /\ raced = {}
    /\ stale = {}
    /\ last = NoFrame
    /\ cancelled = {}
    /\ crashed = {}
    /\ offered = {}

\* The shared state becomes that of w.
Commit(w) ==
    /\ store' = w.store
    /\ pipeline_runs' = w.pipeline_runs
    /\ step_retry_counts' = w.step_retry_counts
    /\ next_uuid' = w.next_uuid
    /\ persisted_max' = w.persisted_max

\* The step calls of frame h made for an index below the highest step_index
\* persisted for the run at the time of the call.
StaleCalls(h) ==
    {h.run_id : i \in {j \in DOMAIN h.invoked :
                          h.invoked[j].persisted > h.invoked[j].index}}

\* What is remembered of the call that left frame h.
Noted(h) ==
    /\ stale' = stale \cup StaleCalls(h)
    /\ cancelled' = IF h.outcome = "cancelled"
                    THEN cancelled \cup {h.run_id} ELSE cancelled
    /\ last' = h

\* One handler call, from the update to the handler's return, with no other
\* handler running in between.
Served(h, io) ==
    \E w \in {Handler(World(h), io)} :
       /\ w.next_uuid <= MaxRuns + 1
       /\ Commit(w)
       /\ Noted(w.h)
       /\ UNCHANGED << inflight, raced, crashed >>

Call(h, io) ==
    /\ Served(h, io)
    /\ UNCHANGED offered

HandleFile(chat_id) ==
    \E io \in FileIo : Call(Frame("handle_file", chat_id, 0, FALSE), io)

RunNextStep(chat_id, run_id, is_retry) ==
    \E io \in StepIo : Call(Frame("run_next_step", chat_id, run_id, is_retry), io)

CancelPipeline(chat_id, run_id) ==
    Call(Frame("cancel_pipeline", chat_id, run_id, FALSE), IoOk)

ClosePipeline(chat_id, run_id) ==
    Call(Frame("close_pipeline", chat_id, run_id, FALSE), IoOk)

Next ==
    \/ \E chat_id \in Owners : HandleFile(chat_id)
    \/ \E chat_id \in Owners, run_id \in RunIds, is_retry \in BOOLEAN :
            RunNextStep(chat_id, run_id, is_retry)
    \/ \E chat_id \in Owners, run_id \in RunIds : CancelPipeline(chat_id, run_id)
    \/ \E chat_id \in Owners, run_id \in RunIds : ClosePipeline(chat_id, run_id)

Spec == Init /\ [][Next]_vars

\* ------------------------------------------------------ process restarts
\* pipeline_runs and step_retry_counts are module-level dicts of the bot's
\* process (state_manager.py lines 14 and 20); the bucket is a MinIO server.
\* When the process dies the dicts are lost and the bucket is kept.
\*
\* The states a handler call can be interrupted in: during each of its
\* segments, before or after the write the segment makes to the bucket
\* (upload_json is one put_object).  The frame tells how far the call got.
CrashPoints(h, io) ==
    LET w0 == World(h)
        w1 == Segment(w0, io)
        w2 == Segment(w1, io)
        w3 == Segment(w2, io)
    IN {[a EXCEPT !.next_uuid = b.next_uuid,
                  !.h = [b.h EXCEPT !.saved = IF a.store = b.store
                                              THEN @ ELSE a.h.saved,
                                    !.error = IF a.store = b.store
                                              THEN @ ELSE a.h.error,
                                    !.pc = "end", !.outcome = "crashed",
                                    !.keyboard = << >>]] :
            <<a, b>> \in {<<w0, w1>>, <<w1, w1>>, <<w1, w2>>,
                          <<w2, w2>>, <<w2, w3>>, <<w3, w3>>}}

\* The step ran in the call of frame h and the call did not persist the
\* context the step returned.
RanUnsaved(h) ==
    /\ h.op = "run_next_step"
    /\ h.invoked # << >> /\ h.invoked[1].result = "ok"
    /\ h.saved = << >>

\* The process dies in state w and is started again: the bucket is as the
\* call left it, the dicts are empty.
Die(w) ==
    /\ w.next_uuid <= MaxRuns + 1
    /\ store' = w.store
    /\ pipeline_runs' = EmptyDict
    /\ step_retry_counts' = EmptyDict
    /\ next_uuid' = w.next_uuid
    /\ persisted_max' = w.persisted_max
    /\ last' = w.h
    /\ crashed' = IF RanUnsaved(w.h) THEN crashed \cup {w.h.run_id} ELSE crashed
    /\ UNCHANGED << inflight, raced, stale, cancelled, offered >>

\* The process is restarted while no handler runs.
Restart ==
    Die(World([NoFrame EXCEPT !.op = "restart", !.outcome = "crashed"]))

\* The process dies while it handles an uploaded document or a Run or Retry
\* press.  The calls enumerated are those in which the store, the step and
\* the hook succeed: a call in which one of them fails, and a Cancel or
\* Close press, write nothing to the bucket, so the process dying there
\* leaves the bucket and the dicts as Restart leaves them.
Crash ==
    \E w \in UNION {CrashPoints(h, IoOk) :
                       h \in {u \in Updates :
                                u.op \in {"handle_file", "run_next_step"}}} :
        Die(w)

\* SpecCrash runs the handlers one call after the other, and lets the process
\* die in a call or between two calls.  The environment fails a step only
\* with LLMError and a save with S3Error.
CrashIo ==
    {IoOk, [IoOk EXCEPT !.step = "LLMError"], [IoOk EXCEPT !.save = "S3Error"]}

RunNextStepOrFail(chat_id, run_id, is_retry) ==
    \E io \in CrashIo :
        Call(Frame("run_next_step", chat_id, run_id, is_retry), io)

NextCrash ==
    \/ \E chat_id \in Owners : HandleFile(chat_id)
    \/ \E chat_id \in Owners, run_id \in RunIds, is_retry \in BOOLEAN :
            RunNextStepOrFail(chat_id, run_id, is_retry)
    \/ \E chat_id \in Owners, run_id \in RunIds : CancelPipeline(chat_id, run_id)
    \/ \E chat_id \in Owners, run_id \in RunIds : ClosePipeline(chat_id, run_id)
    \/ Restart
    \/ Crash

SpecCrash == Init /\ [][NextCrash]_vars

\* ------------------------------------------------------- several chats
\* The bot serves every chat from the same pipeline_runs, step_retry_counts
\* and bucket.  SpecChats runs the handlers for the chats of Chats, one call
\* after the other; the chats press Run, Cancel and Close (no Retry), the
\* environment fails a step only with LLMError and a load only for a run_id
\* that is not in the bucket.
ChatsIo == {IoOk, [IoOk EXCEPT !.step = "LLMError"]}

HandleFileOfChat(chat_id) ==
    Call(Frame("handle_file", chat_id, 0, FALSE), IoOk)

RunNextStepOfChat(chat_id, run_id) ==
    \E io \in ChatsIo :
        Call(Frame("run_next_step", chat_id, run_id, FALSE), io)

NextChats ==
    \/ \E chat_id \in Chats : HandleFileOfChat(chat_id)
    \/ \E chat_id \in Chats, run_id \in RunIds :
            RunNextStepOfChat(chat_id, run_id)
    \/ \E chat_id \in Chats, run_id \in RunIds : CancelPipeline(chat_id, run_id)
    \/ \E chat_id \in Chats, run_id \in RunIds : ClosePipeline(chat_id, run_id)

SpecChats == Init /\ [][NextChats]_vars

\* ------------------------------------------------- interleaved handlers
\* The run_next_step handlers in flight for run_id.
Running(run_id) ==
    {p \in Procs : inflight[p].pc # "end" /\ inflight[p].op = "run_next_step"
                   /\ inflight[p].run_id = run_id}

\* The frame after a segment: the handler goes on, or it has ended.
Suspend(p, w) ==
    /\ w.next_uuid <= MaxRuns + 1
    /\ Commit(w)
    /\ stale' = stale \cup StaleCalls(w.h)
    /\ inflight' = [inflight EXCEPT ![p] = IF w.h.pc = "end" THEN NoFrame ELSE w.h]

Resume(p, w) ==
    /\ Suspend(p, w)
    /\ UNCHANGED << last, cancelled, crashed, offered >>

\* An update is dispatched to a free slot: the handler runs to its first
\* await.
Dispatch(p) ==
    /\ inflight[p].pc = "end"
    /\ \A q \in Procs : q < p => inflight[q].pc # "end"
    /\ \E h \in Updates : \E io \in IoFor(h.op) :
         \E w \in {Segment(World(h), io)} :
            /\ Resume(p, w)
            /\ raced' = IF h.op = "run_next_step" /\ w.h.pc # "end"
                           /\ Running(h.run_id) # {}
                        THEN raced \cup {h.run_id} ELSE raced

\* The event loop resumes a handler at its await: its next segment runs.
Continue(p) ==
    /\ inflight[p].pc # "end"
    /\ \E io \in IoFor(inflight[p].op) :
         \E w \in {Segment(World(inflight[p]), io)} : Resume(p, w)
    /\ UNCHANGED raced

NextConc == \E p \in Procs : Dispatch(p) \/ Continue(p)

\* The state after handle_file has created the runs the model allows, each
\* bound to the chat that uploaded it (chat r bound to run r).
InitConc ==
    /\ store = [r \in 1..NumOwners |-> initialize_pipeline(r)]
    /\ pipeline_runs = [c \in Owners |-> c]
    /\ step_retry_counts = EmptyDict
    /\ next_uuid = MaxRuns + 1
    /\ persisted_max = [r \in RunIds |-> IF r \in 1..NumOwners THEN 0 ELSE -1]
    /\ inflight = [p \in Procs |-> NoFrame]
    /\ raced = {}
    /\ stale = {}
    /\ last = NoFrame
    /\ cancelled = {}
    /\ crashed = {}
    /\ offered = {}

SpecConc == InitConc /\ [][NextConc]_vars

\* ------------------------------------------- Cancel pressed during a step
\* SpecCancel: the owner of a run presses Run or Retry and, while handlers
\* are in flight or not, Cancel; no Run or Retry is pressed for a run after
\* its Cancel was answered.  cancel_pipeline has no await before its
\* cleanup, so it does the cleanup when it is dispatched.
Presses ==
    {h \in Updates :
        \/ h.op = "cancel_pipeline"
        \/ h.op = "run_next_step" /\ h.run_id \notin cancelled}

\* The frame after a segment, the answered Cancel remembered.
ResumeNoting(p, w) ==
    /\ Suspend(p, w)
    /\ cancelled' = IF w.h.pc = "end" /\ w.h.outcome = "cancelled"
                    THEN cancelled \cup {w.h.run_id} ELSE cancelled
    /\ UNCHANGED << last, crashed, offered >>

DispatchPress(p) ==
    /\ inflight[p].pc = "end"
    /\ \A q \in Procs : q < p => inflight[q].pc # "end"
    /\ \E h \in Presses : \E io \in IoFor(h.op) :
         \E w \in {Segment(World(h), io)} :
            /\ ResumeNoting(p, w)
            /\ raced' = IF h.op = "run_next_step" /\ w.h.pc # "end"
                           /\ Running(h.run_id) # {}
                        THEN raced \cup {h.run_id} ELSE raced

ContinuePress(p) ==
    /\ inflight[p].pc # "end"
    /\ \E io \in IoFor(inflight[p].op) :
         \E w \in {Segment(World(inflight[p]), io)} : ResumeNoting(p, w)
    /\ UNCHANGED raced

NextCancel == \E p \in Procs : DispatchPress(p) \/ ContinuePress(p)

SpecCancel == InitConc /\ [][NextCancel]_vars

\* ------------------------------------------------ the runner of bot/main.py
\* bot/main.py holds an older run_next_step, with its own copies of the
\* context functions (the same code as bot/state_manager.py) and of
\* step_retry_counts, a defaultdict of defaultdicts.  It has one path for
\* Run and Retry, catches every exception and offers a retry when the
\* exception's text contains "503 UNAVAILABLE".
retries == 3

\* What the step function, the save and the hook can raise there: an
\* exception whose text contains "503 UNAVAILABLE", or any other.
LegacyIo ==
    {[IoOk EXCEPT !.load = "S3Error"]}
    \cup {[IoOk EXCEPT !.step = s] : s \in {"503 UNAVAILABLE", "ValueError"}}
    \cup {[IoOk EXCEPT !.save = "S3Error"]}
    \cup {[IoOk EXCEPT !.hook = k] : k \in HookResults}

\* main.py lines 197-218: the except branch of run_next_step.
legacy_step_failed(w, error) ==
    LET chat_id == w.h.chat_id
        step_name == w.h.step_name
    IN IF error = "503 UNAVAILABLE" /\ w.h.current_retry < retries - 1
       THEN Return([w EXCEPT !.h.error = error,
                             !.h.slept = Append(@, w.h.delay),
                             !.step_retry_counts =
                                 SetCount(@, chat_id, step_name,
                                          CountOf(@, chat_id, step_name) + 1)],
                   "retry_offered", get_main_keyboard(w.h.ctx, TRUE))
       ELSE IF chat_id \notin DOMAIN w.pipeline_runs
       THEN Escape(w, "KeyError")
       ELSE Return([w EXCEPT
                      !.h.error = error,
                      !.pipeline_runs = Del(@, chat_id),
                      !.store = delete_context_from_minio(@, w.h.run_id),
                      !.step_retry_counts =
                          IF HasCount(@, chat_id, step_name)
                          THEN DelCount(@, chat_id, step_name) ELSE @],
                   "torn_down", << >>)

\* main.py lines 139-218: the whole of run_next_step.
legacy_run_next_step(w, io) ==
    LET chat_id == w.h.chat_id
        run_id == w.h.run_id
        ld == load_context_from_minio(w.store, run_id, io.load)
    IN IF ld.raised
       THEN Return([w EXCEPT !.h.error = "StorageError",
                             !.pipeline_runs =
                                 IF chat_id \in DOMAIN @ THEN Del(@, chat_id) ELSE @],
                   "state_not_found", << >>)
       ELSE
       LET ctx0 == ld.data
           w1 == [w EXCEPT !.pipeline_runs = Put(@, chat_id, run_id),
                           !.h.ctx = ctx0]
       IN IF ctx0.step_index >= NSteps
          THEN Return([w1 EXCEPT !.pipeline_runs = Del(@, chat_id),
                                 !.store = delete_context_from_minio(@, run_id)],
                      "already_completed", << >>)
          ELSE
          LET step_name == StepAt(ctx0.step_index)
              current_retry == CountOf(w.step_retry_counts, chat_id, step_name)
              w2 == [w1 EXCEPT !.h.step_name = step_name,
                               !.h.current_retry = current_retry,
                               !.h.delay = 1 * (2 ^ current_retry),
                               !.step_retry_counts =
                                   SetCount(@, chat_id, step_name, current_retry)]
              called == [w2 EXCEPT !.h.invoked = Append(@, Invocation(w2, io.step))]
          IN IF io.step # "ok"
             THEN legacy_step_failed(called, io.step)
             ELSE
             LET ctx == advance(step_function(ctx0, step_name))
                 advanced == [called EXCEPT !.h.ctx = ctx]
                 sv == save_context_to_minio(w.store, ctx, io.save)
             IN IF sv.raised
                THEN legacy_step_failed([advanced EXCEPT !.store = sv.store],
                                        "StorageError")
                ELSE
                LET done == [advanced EXCEPT
                               !.store = sv.store,
                               !.h.saved = Append(@, ctx),
                               !.step_retry_counts =
                                   SetCount(@, chat_id, step_name, 0)]
                IN IF io.hook # "ok"
                   THEN legacy_step_failed(done, io.hook)
                   ELSE Return(done, "step_completed",
                               get_main_keyboard(ctx, FALSE))

\* One run_next_step call of bot/main.py, from the button to its return.
LegacyRunNextStep(chat_id, run_id, is_retry) ==
    \E io \in LegacyIo :
        \E w \in {Observe(legacy_run_next_step(
                      World(Frame("run_next_step", chat_id, run_id, is_retry)),
                      io))} :
           /\ Commit(w)
           /\ Noted(w.h)
           /\ UNCHANGED << inflight, raced, crashed, offered >>

\* SpecLegacy starts where handle_file has created and bound the run, and
\* runs the button handlers of bot/main.py one call after the other;
\* cancel_pipeline and close_pipeline do there what they do in
\* bot/handlers.py.
NextLegacy ==
    \/ \E chat_id \in Owners, run_id \in RunIds, is_retry \in BOOLEAN :
            LegacyRunNextStep(chat_id, run_id, is_retry)
    \/ \E chat_id \in Owners, run_id \in RunIds : CancelPipeline(chat_id, run_id)
    \/ \E chat_id \in Owners, run_id \in RunIds : ClosePipeline(chat_id, run_id)

SpecLegacy == InitConc /\ [][NextLegacy]_vars

\* ------------------------------------------- an operator and the buttons
\* SpecButtons: the operator uploads documents and presses buttons the bot
\* has sent, of any message sent so far; every press goes through
\* button_handler.  The operator does not stop while an upload or a button
\* can still change something.
Sent(h) == {callback_data(h.keyboard[i]) : i \in DOMAIN h.keyboard}

Upload(chat_id) ==
    \E io \in FileIo :
        /\ Served(Frame("handle_file", chat_id, 0, FALSE), io)
        /\ offered' = offered \cup Sent(last')

Press(chat_id) ==
    \E data \in offered :
        \E h \in {button_handler(chat_id, data)} : \E io \in IoFor(h.op) :
            /\ Served(h, io)
            /\ offered' = offered \cup Sent(last')

NextButtons ==
    \/ \E chat_id \in Owners : Upload(chat_id)
    \/ \E chat_id \in Owners : Press(chat_id)

SpecButtons == Init /\ [][NextButtons]_vars /\ WF_vars(NextButtons)

\* ----------------------------------------------------- the context store
\* SpecStore applies save_context_to_minio and load_context_from_minio to
\* the contexts the pipeline can hold: a run's context before and after its
\* first step, without "requirements" or with a list of up to MaxReqs
\* Requirement objects as pipeline/steps/parse_json.py builds them from the
\* parsed input (priority and additional_details None when absent).
Requirements ==
    {Requirement(PyStr("REQ-1"), PyStr("login"), None, None),
     Requirement(PyStr("REQ-2"), PyStr("logout"), PyStr("high"),
                 PyDict([source |-> PyStr("doc"), owner |-> None]))}

ValidContexts ==
    LET plain == {initialize_pipeline(r) : r \in RunIds}
                 \cup {advance(step_function(initialize_pipeline(r), StepAt(0))) :
                          r \in RunIds}
        lists == UNION {[1..n -> Requirements] : n \in 0..MaxReqs}
    IN plain \cup {[run_id |-> c.run_id, step_index |-> c.step_index,
                    fields |-> c.fields, requirements |-> reqs] :
                       c \in plain, reqs \in lists}

SaveContext(ctx, result) ==
    LET sv == save_context_to_minio(store, ctx, result)
    IN /\ store' = sv.store
       /\ persisted_max' = Observe([World(NoFrame) EXCEPT !.store = sv.store]).persisted_max
       /\ last' = [Frame("save_context_to_minio", 0, ctx.run_id, FALSE) EXCEPT
                      !.pc = "end", !.ctx = ctx,
                      !.saved = IF sv.raised THEN << >> ELSE << ctx >>,
                      !.error = IF sv.raised THEN "StorageError" ELSE ""]
       /\ UNCHANGED << pipeline_runs, step_retry_counts, next_uuid, inflight,
                       raced, stale, cancelled, crashed, offered >>

\* The frame of a load remembers the context the save just before it
\* persisted for the same run_id.
LoadContext(run_id, result) ==
    LET ld == load_context_from_minio(store, run_id, result)
    IN /\ last' = [Frame("load_context_from_minio", 0, run_id, FALSE) EXCEPT
                      !.pc = "end", !.ctx = ld.data,
                      !.saved = IF last.op = "save_context_to_minio"
                                   /\ last.run_id = run_id
                                THEN last.saved ELSE << >>,
                      !.error = IF ld.raised THEN "StorageError" ELSE ""]
       /\ UNCHANGED << store, pipeline_runs, step_retry_counts, next_uuid,
                       persisted_max, inflight, raced, stale, cancelled,
                       crashed, offered >>

NextStore ==
    \/ \E ctx \in ValidContexts, result \in StoreResults : SaveContext(ctx, result)
    \/ \E run_id \in RunIds, result \in StoreResults : LoadContext(run_id, result)

SpecStore == Init /\ [][NextStore]_vars

\* ================================================================ claims
\* The outcomes of a run_next_step call whose step did not succeed.
FailedOutcomes ==
    {"state_not_found", "torn_down", "retry_offered", "retries_exhausted"}

\* C1: under Spec (calls one after the other) a run_next_step call invokes at
\* most one step function, and it is the registry entry at the step_index
\* persisted when the call starts, for execute and retry calls alike; and a
\* persisted step_index only grows from k to k+1, in a run_next_step call
\* for that run that invoked step k exactly once and saw it return.
C1_StepAtPersistedCursor ==
    [][ /\ Len(last'.invoked) <= 1
        /\ \A i \in DOMAIN last'.invoked :
              /\ last'.op = "run_next_step"
              /\ last'.run_id \in DOMAIN store
              /\ last'.invoked[i].index = store[last'.run_id].step_index
              /\ last'.invoked[i].step =
                     PIPELINE_STEPS[store[last'.run_id].step_index + 1]
        /\ \A r \in (DOMAIN store) \cap (DOMAIN store') :
              store'[r].step_index > store[r].step_index =>
                 /\ store'[r].step_index = store[r].step_index + 1
                 /\ last'.op = "run_next_step" /\ last'.run_id = r
                 /\ Len(last'.invoked) = 1
                 /\ last'.invoked[1].index = store[r].step_index
                 /\ last'.invoked[1].result = "ok"
      ]_vars

\* C1 witness: a retry call has just re-invoked the second step of the
\* registry, which returned, and the cursor was persisted past it.
C1_Witness ==
    /\ last.op = "run_next_step" /\ last.is_retry
    /\ last.outcome = "step_completed"
    /\ Len(last.invoked) = 1 /\ last.invoked[1].index = 1
    /\ last.invoked[1].step = PIPELINE_STEPS[2]
    /\ store[last.run_id].step_index = 2

\* C2: under Spec the step_index persisted for a run never decreases over
\* handle_file, run_next_step, cancel_pipeline and close_pipeline calls; a
\* call whose step completed raises it by exactly one, and a run_next_step
\* call that failed leaves every persisted step_index as it was.
C2_MonotonicCursor ==
    [][ /\ \A r \in (DOMAIN store) \cap (DOMAIN store') :
              store'[r].step_index >= store[r].step_index
        /\ (last'.outcome = "step_completed" =>
              /\ last'.run_id \in (DOMAIN store) \cap (DOMAIN store')
              /\ store'[last'.run_id].step_index =
                     store[last'.run_id].step_index + 1)
        /\ (last'.op = "run_next_step" /\ last'.outcome \in FailedOutcomes =>
              \A r \in (DOMAIN store) \cap (DOMAIN store') :
                  store'[r].step_index = store[r].step_index)
      ]_vars

\* C2 witness: a failed retry call on a run whose cursor had already been
\* advanced once.
C2_Witness ==
    /\ last.op = "run_next_step" /\ last.outcome = "retry_offered"
    /\ last.run_id \in DOMAIN store
    /\ store[last.run_id].step_index = 1

\* C3 as claimed: also when run_next_step handlers of one run interleave at
\* their awaits (SpecConc), no step function is called for an index k after
\* a context with step_index > k was persisted for the run.
C3_NoStaleStepCall == stale = {}

\* C3 as amended: a step function is called for an index below the highest
\* persisted step_index of its run only if two run_next_step handlers of
\* that run have been in flight at the same time; calls that the caller
\* serializes never re-execute a completed step.
C3_SerializedNoStaleStepCall == stale \subseteq raced

\* C3 witness: a run was driven through every step by calls that never
\* overlapped, while handlers of SpecConc were free to interleave.
C3_Witness ==
    \E r \in RunIds : r \notin raced /\ persisted_max[r] = NSteps /\ stale = {}

\* C4: when the third consecutive failing retry call of a step returns (the
\* counter was 2 when it started), the run's context is gone from the store
\* and the owner has no pipeline_runs entry.
C4_TornDownAfterThirdFailure ==
    (/\ last.op = "run_next_step" /\ last.is_retry
     /\ last.outcome = "retry_offered"
     /\ last.current_retry = max_retries - 1)
    => /\ last.run_id \notin DOMAIN store
       /\ last.chat_id \notin DOMAIN pipeline_runs

\* C5: a run_next_step call on a run whose persisted step_index equals
\* len(PIPELINE_STEPS) invokes no step function and leaves no context for
\* the run in the store.
C5_CompletedRunIsDeleted ==
    (last.op = "run_next_step" /\ last.outcome = "already_completed")
    => /\ last.invoked = << >>
       /\ last.run_id \notin DOMAIN store

\* C6: after any cancel_pipeline(owner, run_id) call there is no persisted
\* context for run_id, no pipeline_runs entry for the owner and no
\* step_retry_counts entry for the owner.
C6_CancelUnconditional ==
    last.op = "cancel_pipeline"
    => /\ last.run_id \notin DOMAIN store
       /\ last.chat_id \notin DOMAIN pipeline_runs
       /\ last.chat_id \notin DOMAIN step_retry_counts

\* C7: a run_next_step call for a run that was cancelled earlier invokes no
\* step function, persists no context and does not leave the owner bound to
\* the run.
C7_NoAdvanceAfterCancel ==
    (last.op = "run_next_step" /\ last.run_id \in cancelled)
    => /\ last.invoked = << >>
       /\ last.saved = << >>
       /\ ~(/\ last.chat_id \in DOMAIN pipeline_runs
            /\ pipeline_runs[last.chat_id] = last.run_id)

\* C8: after a permanent failure (the except branch of _execute_step, the
\* exhausted branch of _retry_step) the context is deleted, the owner has
\* no pipeline_runs entry and none of the owner's retry counters is left.
C8_PermanentFailureTearsDown ==
    last.outcome \in {"torn_down", "retries_exhausted"}
    => /\ last.run_id \notin DOMAIN store
       /\ last.chat_id \notin DOMAIN pipeline_runs
       /\ (last.chat_id \in DOMAIN step_retry_counts
             => DOMAIN step_retry_counts[last.chat_id].c = {})

\* C9: under Spec a retry call that fails with an exception _retry_step
\* catches, while the counter is below max_retries, leaves the store as it
\* was, leaves the owner bound to the run (the other bindings as they were)
\* and changes no attempt count but that of (owner, step at the cursor),
\* which grows by one.
C9_FailedRetryHasNoDurableEffect ==
    [][ (/\ last'.op = "run_next_step" /\ last'.is_retry
         /\ last'.outcome = "retry_offered")
        => /\ store' = store
           /\ next_uuid' = next_uuid
           /\ pipeline_runs' = Put(pipeline_runs, last'.chat_id, last'.run_id)
           /\ last'.step_name =
                  PIPELINE_STEPS[store[last'.run_id].step_index + 1]
           /\ \A c \in Owners, n \in StepNames :
                  CountOf(step_retry_counts', c, n) =
                      CountOf(step_retry_counts, c, n)
                      + (IF c = last'.chat_id /\ n = last'.step_name
                         THEN 1 ELSE 0)
      ]_vars

\* C9 witness: a retry call of the second step has just failed for the
\* second time in a row, within the limit.
C9_Witness ==
    /\ last.op = "run_next_step" /\ last.is_retry
    /\ last.outcome = "retry_offered"
    /\ last.current_retry = 1 /\ last.current_retry < max_retries
    /\ last.step_name = PIPELINE_STEPS[2]
    /\ CountOf(step_retry_counts, last.chat_id, last.step_name) = 2

\* The call of frame h ran its step, which returned, and the save that
\* followed raised StorageError.
SaveFailed(h) ==
    /\ h.op = "run_next_step"
    /\ Len(h.invoked) = 1 /\ h.invoked[1].result = "ok"
    /\ h.saved = << >> /\ h.error = "StorageError"

\* C10: a run_next_step call (execute or retry) whose save raises
\* StorageError after the step has run leaves the owner bound to the run,
\* every attempt count and the persisted contexts as they were.
C10_SaveFailureLeavesRunUntouched ==
    [][ SaveFailed(last')
        => /\ store' = store
           /\ last'.chat_id \in DOMAIN pipeline_runs'
           /\ pipeline_runs'[last'.chat_id] = last'.run_id
           /\ \A c \in Owners, n \in StepNames :
                  CountOf(step_retry_counts', c, n) =
                      CountOf(step_retry_counts, c, n)
      ]_vars

\* The call of frame h invoked the step function once and it raised.
StepRaised(h) ==
    /\ h.op = "run_next_step"
    /\ Len(h.invoked) = 1 /\ h.invoked[1].result # "ok"

\* C11: a run_next_step call whose step function raised, whatever the
\* exception type, ends in a designed outcome: a retry is offered or the
\* run is torn down; no step error leaves the handler uncaught.
C11_StepErrorsNeverEscape ==
    StepRaised(last) => last.outcome \in {"retry_offered", "torn_down"}

\* C12: a step failing with LLMError (the upstream service failed) while
\* fewer than max_retries failures are recorded for (owner, step) is not a
\* teardown, in an execute call as in a retry call: the count grows by one,
\* the store and the owner's binding are kept, a retry button is offered.
C12_TransientFailureIsNeverTeardown ==
    [][ (/\ StepRaised(last') /\ last'.invoked[1].result = "LLMError"
         /\ CountOf(step_retry_counts, last'.chat_id, last'.step_name)
                < max_retries)
        => /\ last'.outcome = "retry_offered"
           /\ CountOf(step_retry_counts', last'.chat_id, last'.step_name) =
                  CountOf(step_retry_counts, last'.chat_id, last'.step_name) + 1
           /\ store' = store
           /\ last'.chat_id \in DOMAIN pipeline_runs'
           /\ pipeline_runs'[last'.chat_id] = last'.run_id
           /\ Len(last'.keyboard) > 0 /\ last'.keyboard[1].label = "Retry"
      ]_vars

\* The step errors no retry can cure: PipelineError (the pipeline's own
\* logic failed) and ValueError (malformed input, raised by the registered
\* steps).
FatalStepErrors == {"PipelineError", "ValueError"}

\* C13: a fatal step error in a retry call whose attempt count is below
\* max_retries tears the run down at once: no retry is offered and the
\* owner's binding is gone.
C13_FatalErrorTearsDownInRetry ==
    (/\ StepRaised(last) /\ last.is_retry
     /\ last.invoked[1].result \in FatalStepErrors
     /\ last.current_retry < max_retries)
    => /\ last.outcome = "torn_down"
       /\ last.keyboard = << >>
       /\ last.chat_id \notin DOMAIN pipeline_runs

\* C14: the backoff delay is 1 * 2^attempt, 1, 2 and 4 for attempts 0, 1
\* and 2, and the delay of a failing retry call is computed from the count
\* recorded for (owner, step) before the call incremented it.
C14_BackoffLaw ==
    [][ /\ \A n \in 0..(max_retries - 1) : backoff_delay(n) = <<1, 2, 4>>[n + 1]
        /\ (last'.op = "run_next_step" /\ last'.outcome = "retry_offered" =>
              LET before == CountOf(step_retry_counts, last'.chat_id,
                                    last'.step_name)
              IN /\ last'.current_retry = before
                 /\ last'.delay = 2 ^ before
                 /\ last'.delay \in {1, 2, 4}
                 /\ CountOf(step_retry_counts', last'.chat_id,
                            last'.step_name) = before + 1)
      ]_vars

\* C14 witness: the third failing retry call in a row has announced and
\* slept 4 seconds.
C14_Witness ==
    /\ last.op = "run_next_step" /\ last.outcome = "retry_offered"
    /\ last.current_retry = 2 /\ last.delay = 4
    /\ CountOf(step_retry_counts, last.chat_id, last.step_name) = 3

\* C15: under Spec a handle_file call for an owner that has a pipeline_runs
\* entry creates no run, writes no context and leaves every binding as it
\* was; a run is created only by handle_file for an owner without an entry.
C15_SingleFlightAtInit ==
    [][ /\ (last'.op = "handle_file" /\ last'.chat_id \in DOMAIN pipeline_runs =>
              /\ last'.outcome = "already_in_progress"
              /\ last'.saved = << >>
              /\ store' = store
              /\ next_uuid' = next_uuid
              /\ pipeline_runs' = pipeline_runs)
        /\ (next_uuid' # next_uuid =>
              /\ last'.op = "handle_file"
              /\ last'.chat_id \notin DOMAIN pipeline_runs)
      ]_vars

\* C15 witness: an owner bound to a run has just uploaded another document
\* and was refused.
C15_Witness ==
    /\ last.op = "handle_file" /\ last.outcome = "already_in_progress"
    /\ last.chat_id \in DOMAIN pipeline_runs
    /\ pipeline_runs[last.chat_id] \in DOMAIN store

\* C17: under Spec a run_next_step call for a run_id that has no context in
\* the store reports "state not found"; a call that reports it has invoked
\* no step function and written no context, and leaves the owner without a
\* pipeline_runs entry.
C17_NotFoundIsTerminal ==
    [][ /\ (last'.op = "run_next_step" /\ last'.run_id \notin DOMAIN store =>
              last'.outcome = "state_not_found")
        /\ (last'.op = "run_next_step" /\ last'.outcome = "state_not_found" =>
              /\ last'.invoked = << >>
              /\ last'.saved = << >>
              /\ store' = store
              /\ step_retry_counts' = step_retry_counts
              /\ last'.chat_id \notin DOMAIN pipeline_runs')
      ]_vars

\* C17 witness: an owner that had created a run asked for a run_id that is
\* not in the store, and is now without a binding.
C17_Witness ==
    /\ last.op = "run_next_step" /\ last.outcome = "state_not_found"
    /\ last.run_id \notin DOMAIN store
    /\ DOMAIN store # {}
    /\ last.chat_id \notin DOMAIN pipeline_runs

\* C18: "state not found" is reported only for a run_id whose context is
\* missing; a load that fails although the object is in the store (the
\* store cannot be reached) ends otherwise and leaves the bindings alone.
C18_NotFoundDistinctFromIoFailure ==
    [][ (/\ last'.op = "run_next_step" /\ last'.invoked = << >>
         /\ last'.error = "StorageError"
         /\ last'.run_id \in DOMAIN store)
        => /\ last'.outcome # "state_not_found"
           /\ pipeline_runs' = pipeline_runs
      ]_vars

\* C19: in every state Spec reaches and for every owner that has no binding
\* or is bound to another run, a run_next_step call for a run whose context
\* loads binds the owner to that run in the handler's first segment, before
\* any step is invoked, and for every answer of the environment the call
\* ends in the state and with the outcome it has for an owner that was
\* bound to the run from the start.
C19_OwnershipReattached ==
    \A chat_id \in Owners, run_id \in DOMAIN store, is_retry \in BOOLEAN :
       ~(chat_id \in DOMAIN pipeline_runs /\ pipeline_runs[chat_id] = run_id)
       => LET h == Frame("run_next_step", chat_id, run_id, is_retry)
              bound == [World(h) EXCEPT
                           !.pipeline_runs = Put(@, chat_id, run_id)]
          IN \A io \in StepIo :
                io.load = "ok" =>
                  LET first == Segment(World(h), io)
                      whole == Handler(World(h), io)
                  IN /\ first.h.invoked = << >>
                     /\ chat_id \in DOMAIN first.pipeline_runs
                     /\ first.pipeline_runs[chat_id] = run_id
                     /\ [whole EXCEPT !.h.reattached = FALSE]
                            = Handler(bound, io)

\* C19 witness: an owner that was not bound to the run has just advanced it
\* and is bound to it.
C19_Witness ==
    /\ last.op = "run_next_step" /\ last.reattached
    /\ last.outcome = "step_completed"
    /\ pipeline_runs[last.chat_id] = last.run_id

\* The owner chat_id is bound to a run whose persisted cursor is at the end
\* of the registry.
BoundToCompleted(runs, st, chat_id) ==
    /\ chat_id \in DOMAIN runs
    /\ runs[chat_id] \in DOMAIN st
    /\ st[runs[chat_id]].step_index = NSteps

\* C20: under Spec, when the last step succeeds the context is persisted
\* with step_index = len(PIPELINE_STEPS), stays in the store, the owner
\* stays bound and is offered Close; and while an owner is bound to such a
\* completed run, handle_file for that owner is refused and changes nothing.
C20_CompletedRunIsRetained ==
    [][ /\ (/\ last'.outcome = "step_completed"
            /\ last'.invoked[1].index = NSteps - 1)
           => /\ last'.run_id \in DOMAIN store'
              /\ store'[last'.run_id].step_index = NSteps
              /\ BoundToCompleted(pipeline_runs', store', last'.chat_id)
              /\ pipeline_runs'[last'.chat_id] = last'.run_id
              /\ Len(last'.keyboard) = 1 /\ last'.keyboard[1].label = "Close"
        /\ (/\ last'.op = "handle_file"
            /\ BoundToCompleted(pipeline_runs, store, last'.chat_id))
           => /\ last'.outcome = "already_in_progress"
              /\ store' = store
              /\ pipeline_runs' = pipeline_runs
              /\ BoundToCompleted(pipeline_runs', store', last'.chat_id)
      ]_vars

\* C20 witness: the owner of a completed run that is still bound and still
\* in the store has just been refused a new upload.
C20_Witness ==
    /\ last.op = "handle_file" /\ last.outcome = "already_in_progress"
    /\ BoundToCompleted(pipeline_runs, store, last.chat_id)

\* C16: under SpecChats no run_id is bound to two owners at once, and a
\* run_next_step call that invoked a step was not issued for a run another
\* owner is bound to.
C16_OnlyOwnerAdvances ==
    /\ \A a, b \in DOMAIN pipeline_runs :
          a # b => pipeline_runs[a] # pipeline_runs[b]
    /\ (last.op = "run_next_step" /\ last.invoked # << >>) =>
          ~ \E a \in (DOMAIN pipeline_runs) \ {last.chat_id} :
                pipeline_runs[a] = last.run_id

\* C24: in every state Spec reaches the persisted step_index of every run
\* is between 0 and len(PIPELINE_STEPS), a run that handle_file has just
\* initialized is persisted with step_index 0, and every step call was
\* made for an index inside the registry, for the step the registry holds
\* there.
C24_CursorInRange ==
    /\ \A r \in DOMAIN store :
          store[r].step_index >= 0 /\ store[r].step_index <= NSteps
    /\ (last.outcome = "initialized" =>
          /\ last.run_id \in DOMAIN store
          /\ store[last.run_id].step_index = 0)
    /\ \A i \in DOMAIN last.invoked :
          /\ last.invoked[i].index \in 0..(NSteps - 1)
          /\ last.invoked[i].step = PIPELINE_STEPS[last.invoked[i].index + 1]
    /\ \A i \in DOMAIN last.keyboard :
          last.keyboard[i].label \in {"Run", "Retry"} =>
              /\ last.ctx.step_index \in 0..(NSteps - 1)
              /\ last.keyboard[i].step = PIPELINE_STEPS[last.ctx.step_index + 1]

\* C24 witness: a run was driven to the end of the registry and its cursor
\* rests at len(PIPELINE_STEPS), the Close keyboard having been offered.
C24_Witness ==
    /\ last.outcome = "step_completed"
    /\ store[last.run_id].step_index = NSteps
    /\ last.invoked[1].index = NSteps - 1
    /\ last.keyboard[1].label = "Close"

\* C25: under Spec, after a call that advanced a step the attempt count of
\* (owner, that step) is 0 or absent; a failed retry attempt raises the
\* count of (owner, step) by exactly one, and no other call raises any
\* count.
C25_CounterResetAndIncrement ==
    [][ /\ (last'.outcome = "step_completed" =>
              CountOf(step_retry_counts', last'.chat_id, last'.step_name) = 0)
        /\ (last'.op = "run_next_step" /\ last'.outcome = "retry_offered" =>
              CountOf(step_retry_counts', last'.chat_id, last'.step_name) =
                CountOf(step_retry_counts, last'.chat_id, last'.step_name) + 1)
        /\ \A c \in Owners, n \in StepNames :
              CountOf(step_retry_counts', c, n) > CountOf(step_retry_counts, c, n)
              => /\ last'.op = "run_next_step" /\ last'.is_retry
                 /\ last'.outcome = "retry_offered"
                 /\ c = last'.chat_id /\ n = last'.step_name
                 /\ CountOf(step_retry_counts', c, n) =
                        CountOf(step_retry_counts, c, n) + 1
      ]_vars

\* C25 witness: a retry call has just succeeded after two failed attempts
\* and left the step's count at 0.
C25_Witness ==
    /\ last.op = "run_next_step" /\ last.is_retry
    /\ last.outcome = "step_completed" /\ last.current_retry = 2
    /\ HasCount(step_retry_counts, last.chat_id, last.step_name)
    /\ step_retry_counts[last.chat_id].c[last.step_name] = 0

\* The call of frame h ran its step, saved the advanced context, and then
\* send_step_artifacts_if_available raised.
HookFailed(h) ==
    /\ h.op = "run_next_step"
    /\ Len(h.invoked) = 1 /\ h.invoked[1].result = "ok"
    /\ Len(h.saved) = 1
    /\ h.error \in HookResults \ {"ok"}

\* C26: under Spec, when the artifact hook raises after the step succeeded
\* and the context was saved, the persisted step_index stays advanced by
\* one, the run stays in the store and bound to the owner, and the step's
\* attempt count is not raised (it is 0 or absent).
C26_HookFailureDoesNotFailStep ==
    [][ HookFailed(last')
        => /\ last'.run_id \in DOMAIN store'
           /\ store'[last'.run_id].step_index =
                  store[last'.run_id].step_index + 1
           /\ store'[last'.run_id] = last'.saved[1]
           /\ last'.chat_id \in DOMAIN pipeline_runs'
           /\ pipeline_runs'[last'.chat_id] = last'.run_id
           /\ last'.outcome \notin {"torn_down", "retry_offered"}
           /\ CountOf(step_retry_counts', last'.chat_id, last'.step_name) = 0
      ]_vars

\* C26 witness: the hook has just failed in a retry call that advanced the
\* run after an earlier failed attempt.
C26_Witness ==
    /\ HookFailed(last) /\ last.is_retry /\ last.current_retry = 1
    /\ store[last.run_id].step_index = last.invoked[1].index + 1

\* C27: close_pipeline for a completed run the owner is bound to removes the
\* owner's binding, every retry counter of the owner and the persisted
\* context of the run.
C27_CloseTearsDown ==
    [][ (/\ last'.op = "close_pipeline"
         /\ BoundToCompleted(pipeline_runs, store, last'.chat_id)
         /\ pipeline_runs[last'.chat_id] = last'.run_id)
        => /\ last'.chat_id \notin DOMAIN pipeline_runs'
           /\ last'.chat_id \notin DOMAIN step_retry_counts'
           /\ last'.run_id \notin DOMAIN store'
      ]_vars

\* C28: every handler call has returned after its (at most three) segments;
\* a run_next_step call invokes at most one step function and sleeps at most
\* once, and a retry call whose step raised an exception _retry_step catches
\* has slept the backoff delay once and returned with the Retry keyboard.
C28_OneAttemptPerCall ==
    /\ last.pc = "end"
    /\ Len(last.invoked) <= 1
    /\ Len(last.slept) <= 1
    /\ (last.slept # << >> => last.outcome = "retry_offered")
    /\ (/\ StepRaised(last) /\ last.is_retry
        /\ last.invoked[1].result \in Caught)
       => /\ last.outcome = "retry_offered"
          /\ last.slept = << last.delay >>
          /\ Len(last.keyboard) > 0 /\ last.keyboard[1].label = "Retry"

\* C28 witness: a second failing retry attempt has slept 2 seconds and
\* returned with the Retry keyboard after one invocation.
C28_Witness ==
    /\ last.op = "run_next_step" /\ last.outcome = "retry_offered"
    /\ Len(last.invoked) = 1 /\ last.slept = << 2 >>

\* C30: once a retry call has found the retries exhausted and torn the run
\* down, no later run_next_step call for that run invokes the step again.
C30_BoundedRetry ==
    [][ (/\ last.outcome = "retries_exhausted"
         /\ last'.op = "run_next_step" /\ last'.run_id = last.run_id)
        => last'.invoked = << >>
      ]_vars

\* C21: under SpecCrash, when the process has just died (in a call, at any
\* point of it, or between calls) the next run_next_step call that loads the
\* run's context binds the owner to the run again and, if the run is not
\* complete, invokes the step the registry holds at the persisted
\* step_index: the same index as the step of the interrupted call when that
\* call died between the step and its save.  When the call completes the
\* step the persisted step_index has risen by exactly one and the owner is
\* bound to the run.
C21_ResumesAtPersistedCursor ==
    [][ (/\ last.outcome = "crashed"
         /\ last'.op = "run_next_step"
         /\ last'.run_id \in DOMAIN store
         /\ last'.ctx # NoCtx)
        => /\ last'.reattached
           /\ last'.ctx.run_id = last'.run_id
           /\ (store[last'.run_id].step_index < NSteps /\ last'.invoked # << >>
               => /\ Len(last'.invoked) = 1
                  /\ last'.invoked[1].index = store[last'.run_id].step_index
                  /\ last'.invoked[1].step =
                        PIPELINE_STEPS[store[last'.run_id].step_index + 1]
                  /\ (RanUnsaved(last) /\ last.run_id = last'.run_id
                      => /\ last'.invoked[1].index = last.invoked[1].index
                         /\ last'.invoked[1].step = last.invoked[1].step))
           /\ (store[last'.run_id].step_index < NSteps
                 /\ last'.outcome # "crashed" /\ last'.pc = "end"
               => last'.invoked # << >>)
           /\ (last'.outcome = "step_completed"
               => /\ store'[last'.run_id].step_index =
                        store[last'.run_id].step_index + 1
                  /\ last'.chat_id \in DOMAIN pipeline_runs'
                  /\ pipeline_runs'[last'.chat_id] = last'.run_id)
      ]_vars

\* C21 witness: a run whose call died between a step and its save has
\* reached the end of the registry with every step's fields persisted.
C21_Witness ==
    /\ last.outcome = "step_completed" /\ last.run_id \in crashed
    /\ store[last.run_id].step_index = NSteps
    /\ store[last.run_id].fields = StepNames

\* C22: in every state SpecCrash reaches, for every persisted context and
\* every step k of the registry, the context's step_index is past k exactly
\* when the context holds the fields step k writes.
C22_FieldsAndCursorTogether ==
    \A r \in DOMAIN store : \A k \in 0..(NSteps - 1) :
        (store[r].step_index >= k + 1) <=> (StepAt(k) \in store[r].fields)

\* C22 witness: the process has just died between the execution of the
\* second step and its save; the bucket holds the context of the first
\* step, cursor 1.
C22_Witness ==
    /\ last.outcome = "crashed" /\ RanUnsaved(last)
    /\ last.invoked[1].index = 1
    /\ store[last.run_id].step_index = 1
    /\ store[last.run_id].fields = {StepAt(0)}

\* C29: under SpecCancel, when a run_next_step handler that was in flight
\* between its load and its save while cancel_pipeline cancelled its run
\* ends, and no handler is in flight any more, the bucket holds no context
\* for the run and no owner is bound to it.
C29_CancelDuringStepTearsDown ==
    [][ \A p \in Procs :
          (/\ inflight[p].op = "run_next_step"
           /\ inflight[p].pc \in {"exec_run", "retry_run"}
           /\ inflight[p].run_id \in cancelled
           /\ \A q \in Procs : inflight'[q].pc = "end")
          => /\ inflight[p].run_id \notin DOMAIN store'
             /\ \A c \in DOMAIN pipeline_runs' :
                   pipeline_runs'[c] # inflight[p].run_id
      ]_vars

\* C23: under SpecStore, a load_context_from_minio(run_id) that follows a
\* successful save_context_to_minio(ctx) for that run_id and does not raise
\* returns a context equal to ctx, the Requirement objects under
\* "requirements" included; the save replaces the object of ctx's run_id,
\* whatever version it held, and touches no other object.
C23_SaveLoadRoundTrip ==
    [][ /\ (/\ last.op = "save_context_to_minio" /\ last.saved # << >>
            /\ last'.op = "load_context_from_minio"
            /\ last'.run_id = last.run_id /\ last'.error = "")
           => /\ last'.ctx = last.saved[1]
              /\ last'.ctx = last.ctx
        /\ (last'.op = "save_context_to_minio" /\ last'.saved # << >>)
           => /\ DOMAIN store' = DOMAIN store
                                   \cup {get_context_minio_path(last'.run_id)}
              /\ \A r \in DOMAIN store :
                    r # get_context_minio_path(last'.run_id)
                    => store'[r] = store[r]
              /\ load_context_from_minio(store', last'.run_id, "ok").data
                    = last'.ctx
      ]_vars

\* C23 witness: a context with two Requirement objects, one of them with
\* priority None, was saved over a later version of the run (cursor 1) and
\* loaded back equal.
C23_Witness ==
    /\ last.op = "load_context_from_minio" /\ last.error = ""
    /\ last.saved # << >> /\ last.ctx = last.saved[1]
    /\ "requirements" \in DOMAIN last.ctx
    /\ Len(last.ctx.requirements) = MaxReqs
    /\ last.ctx.requirements[1].type = "Requirement"
    /\ last.ctx.requirements[1].attrs.priority = None
    /\ last.ctx.requirements[2].attrs.priority # None
    /\ last.ctx.step_index = 0 /\ persisted_max[last.run_id] = 1

\* C31: in every state Spec reaches every retry counter lies in
\* 0..max_retries, a retry call that invoked the step function read a
\* counter below max_retries, and a retry call that found the retries
\* exhausted invoked no step function.
C31_CounterBounded ==
    /\ \A c \in DOMAIN step_retry_counts :
          \A n \in DOMAIN step_retry_counts[c].c :
              step_retry_counts[c].c[n] \in 0..max_retries
    /\ (last.op = "run_next_step" /\ last.is_retry /\ last.invoked # << >>
        => last.current_retry < max_retries)
    /\ (last.outcome = "retries_exhausted"
        => last.invoked = << >> /\ last.current_retry = max_retries)

\* C31 witness: the third failed retry attempt has just brought the step's
\* counter to max_retries.
C31_Witness ==
    /\ last.op = "run_next_step" /\ last.outcome = "retry_offered"
    /\ last.current_retry = max_retries - 1
    /\ CountOf(step_retry_counts, last.chat_id, last.step_name) = max_retries

\* C32: between handler calls every owner in pipeline_runs is bound to a
\* run_id whose context is in the bucket; after a handle_file whose save of
\* the initial context failed the owner is not bound.
C32_BoundRunIsPersisted ==
    /\ \A c \in DOMAIN pipeline_runs : pipeline_runs[c] \in DOMAIN store
    /\ (last.op = "handle_file" /\ last.outcome = "init_error"
        => last.chat_id \notin DOMAIN pipeline_runs)

\* C33: when handle_file has created a new run for an owner, every retry
\* counter of that owner is 0 or absent.
C33_CountersDoNotLeak ==
    (last.op = "handle_file" /\ last.outcome = "initialized")
    => \A n \in StepNames : CountOf(step_retry_counts, last.chat_id, n) = 0

\* C34: a run_next_step call for run A that fails to load A's context, made
\* by an owner bound to another run B whose context is in the bucket, leaves
\* the owner bound to B.
C34_NotFoundKeepsOtherBinding ==
    [][ (/\ last'.op = "run_next_step" /\ last'.outcome = "state_not_found"
         /\ last'.chat_id \in DOMAIN pipeline_runs
         /\ pipeline_runs[last'.chat_id] # last'.run_id
         /\ pipeline_runs[last'.chat_id] \in DOMAIN store)
        => /\ last'.chat_id \in DOMAIN pipeline_runs'
           /\ pipeline_runs'[last'.chat_id] = pipeline_runs[last'.chat_id]
      ]_vars

\* C36: when run_next_step ends by offering a keyboard, its Run or Retry
\* button names the step the registry holds at the persisted step_index of
\* the run, and its Close button is offered only when the persisted
\* step_index is len(PIPELINE_STEPS).
C36_ButtonNamesPersistedStep ==
    (last.op = "run_next_step" /\ last.run_id \in DOMAIN store)
    => \A i \in DOMAIN last.keyboard :
          /\ (last.keyboard[i].label \in {"Run", "Retry"}
              => /\ store[last.run_id].step_index < NSteps
                 /\ last.keyboard[i].step = StepAt(store[last.run_id].step_index))
          /\ (last.keyboard[i].label = "Close"
              => store[last.run_id].step_index = NSteps)

\* C39: cancel_pipeline and close_pipeline called with a run_id the owner is
\* not bound to leave pipeline_runs, step_retry_counts and the bucket as they
\* were; and when close_pipeline has answered "Pipeline closed", a
\* handle_file of the same owner that follows is not refused as already in
\* progress.
C39_CloseAnswerAllowsUpload ==
    [][ /\ (/\ last'.op \in {"cancel_pipeline", "close_pipeline"}
            /\ ~(/\ last'.chat_id \in DOMAIN pipeline_runs
                 /\ pipeline_runs[last'.chat_id] = last'.run_id))
           => UNCHANGED << pipeline_runs, step_retry_counts, store >>
        /\ (/\ last.op = "close_pipeline" /\ last.outcome = "closed"
            /\ last'.op = "handle_file" /\ last'.chat_id = last.chat_id)
           => last'.outcome # "already_in_progress"
      ]_vars

\* C35: under SpecButtons, where the operator starts with handle_file and
\* presses only buttons the bot has sent, a step that fails in a call made
\* from a button is followed by a Retry button (retry_step_ callback data)
\* being sent, so that _retry_step can be invoked.
C35_FailedStepLeadsToRetryButton ==
    (last.op = "run_next_step" /\ StepRaised(last))
    ~> (\E data \in offered : startswith(data, << "retry", "step" >>))

\* The keyboard kb is the one the claim describes for ctx and
\* is_retry_available, and button_handler turns each of its callbacks into
\* the call the claim names, for the run_id of ctx.
KeyboardAsClaimed(kb, ctx, is_retry_available, chat_id) ==
    /\ IF ctx.step_index < NSteps
       THEN /\ Len(kb) = 2
            /\ kb[1].label = (IF is_retry_available THEN "Retry" ELSE "Run")
            /\ kb[2].label = "Cancel"
       ELSE Len(kb) = 1 /\ kb[1].label = "Close"
    /\ \A i \in DOMAIN kb :
          LET data == callback_data(kb[i])
          IN /\ data[Len(data)] = ctx.run_id
             /\ button_handler(chat_id, data) =
                    Frame(CASE kb[i].label \in {"Run", "Retry"} -> "run_next_step"
                            [] kb[i].label = "Cancel" -> "cancel_pipeline"
                            [] kb[i].label = "Close" -> "close_pipeline",
                          chat_id, ctx.run_id, kb[i].label = "Retry")
             /\ button_handler(chat_id, data) \in Updates

\* C38: get_main_keyboard offers exactly Run or Retry (Retry iff
\* is_retry_available) and Cancel while step_index < len(PIPELINE_STEPS) and
\* exactly Close otherwise, for every context and flag and for the keyboard
\* every call of Spec has sent; each button's callback data ends with the
\* run_id, and button_handler dispatches it to run_next_step (is_retry only
\* for Retry), cancel_pipeline or close_pipeline with that run_id.
C38_KeyboardAndDispatch ==
    /\ \A r \in RunIds, k \in 0..NSteps, b \in BOOLEAN, c \in Owners :
          LET ctx == [initialize_pipeline(r) EXCEPT !.step_index = k]
          IN KeyboardAsClaimed(get_main_keyboard(ctx, b), ctx, b, c)
    /\ (last.keyboard # << >>
        => KeyboardAsClaimed(last.keyboard, last.ctx,
                             last.outcome = "retry_offered", last.chat_id))

\* C38 witness: a failed retry attempt has just sent the Retry keyboard, and
\* button_handler turns its first button into a retry call for the run.
C38_Witness ==
    /\ last.outcome = "retry_offered" /\ Len(last.keyboard) = 2
    /\ last.keyboard[1].label = "Retry"
    /\ button_handler(last.chat_id, callback_data(last.keyboard[1])).is_retry
    /\ button_handler(last.chat_id, callback_data(last.keyboard[1])).run_id
          = last.run_id

\* C37: under SpecLegacy, run_next_step of bot/main.py offers a retry only
\* for an exception whose text contains "503 UNAVAILABLE" while fewer than
\* retries - 1 failures are recorded for (owner, step); every other failure,
\* and a 503 failure with retries - 1 failures recorded, tears the run down
\* in the same call; and after that third failure in a row no further call
\* for the run invokes the step and fails again.
C37_LegacyRetryLimit ==
    [][ /\ (last'.op = "run_next_step" /\ last'.outcome = "retry_offered"
            => /\ last'.error = "503 UNAVAILABLE"
               /\ last'.current_retry < retries - 1)
        /\ (/\ last'.op = "run_next_step" /\ last'.error # ""
            /\ last'.invoked # << >>
            /\ ~(/\ last'.error = "503 UNAVAILABLE"
                 /\ last'.current_retry < retries - 1)
            => /\ last'.outcome = "torn_down"
               /\ last'.chat_id \notin DOMAIN pipeline_runs')
        /\ (/\ last.op = "run_next_step" /\ StepRaised(last)
            /\ last.current_retry = retries - 1
            /\ last'.op = "run_next_step" /\ last'.run_id = last.run_id
            => ~StepRaised(last'))
      ]_vars

====
